---------------------------- MODULE Spec2Model ----------------------------
(***************************************************************************)
(* coSimple: a minimal CANopen master (coSimple.c / coSimple.h).           *)
(*                                                                         *)
(* The model follows one co_t instance.  The four collaborators (rx, tx,   *)
(* emcy, ms) are the environment: every call of rx, tx and ms draws its    *)
(* result from a small set, and what the core handed to tx and emcy is     *)
(* recorded in ev, the collaborator calls of the last step.  A blocking    *)
(* call (coNMTWaitBoot, coSDOWrite, coSDORead) is one step for the code up *)
(* to the loop and one step per loop iteration; every other operation is   *)
(* one step.  32-bit values are pairs <<high 16 bits, low 16 bits>>.       *)
(***************************************************************************)
EXTENDS Integers, Sequences, FiniteSets

VARIABLES
    pc,           \* "idle": no call in progress, "poll": inside a blocking loop
    call,         \* operation and arguments of the current / last call
    msg,          \* the co_msg_t local of the current / last call
    start,        \* the local start timestamp of a blocking call
    now,          \* the millisecond counter as last read through co->ms
    ret,          \* return value of the last finished call, int or uint32_t, as 32 bits
    retAt,        \* the return statement the last call left through
    out,          \* the caller's output objects (*data of coSDORead, data/len of coRPDO)
    ev,           \* collaborator calls made by the last step, with their results
    syncCounter,  \* co->syncCounter
    syncEnable,   \* whether the build defines CO_SYNC_COUNTER_ENABLE
    probe,        \* arguments and result of a single evaluation of haveTimeout
    env           \* the receive source: frames pending in it, who took which frame,
                  \* and the coSYNC calls counted since the last reset

vars == <<pc, call, msg, start, now, ret, retAt, out, ev, syncCounter, syncEnable, probe, env>>

---------------------------------------------------------------------------
(* Program constants *)

COB_ID_NMT == 0
COB_ID_SYNC == 128
COB_ID_EMCY == 128
COB_ID_TIME == 256
COB_ID_TPDO1 == 384
COB_ID_RPDO1 == 512
COB_ID_TSDO == 1408
COB_ID_RSDO == 1536
COB_ID_HRTB == 1792

CO_TIMEOUT_NMT == 3000
CO_TIMEOUT_SDO == 1000

---------------------------------------------------------------------------
(* Fixed-width arithmetic *)

RECURSIVE BitAnd(_, _)
BitAnd(a, b) ==
    IF a = 0 \/ b = 0 THEN 0
    ELSE (IF a % 2 = 1 /\ b % 2 = 1 THEN 1 ELSE 0) + 2 * BitAnd(a \div 2, b \div 2)

RECURSIVE BitOr(_, _)
BitOr(a, b) ==
    IF a = 0 THEN b
    ELSE IF b = 0 THEN a
    ELSE (IF a % 2 = 1 \/ b % 2 = 1 THEN 1 ELSE 0) + 2 * BitOr(a \div 2, b \div 2)

\* uint32_t of a non-negative number below 2^31
U32(n) == <<n \div 65536, n % 65536>>

U32Zero == <<0, 0>>

\* (uint32_t)-1, what a uint32_t function returns for "return -1"
U32Max == <<65535, 65535>>

\* a + b modulo 2^32
Add32(a, b) ==
    LET lo == a[2] + b[2]
    IN  <<(a[1] + b[1] + lo \div 65536) % 65536, lo % 65536>>

\* a - b modulo 2^32
Sub32(a, b) ==
    LET lo == a[2] - b[2]
        borrow == IF lo < 0 THEN 1 ELSE 0
    IN  <<(a[1] - b[1] - borrow) % 65536, lo % 65536>>

\* unsigned a >= b
Geq32(a, b) == a[1] > b[1] \/ (a[1] = b[1] /\ a[2] >= b[2])

\* the int32_t reading of a 32-bit pattern is negative
IsNeg32(a) == a[1] >= 32768

Int32Min == <<32768, 0>>

\* conversion of an int return value to the uint32_t return type
IntToU32(i) == IF i < 0 THEN Sub32(U32Zero, U32(-i)) ELSE U32(i)

---------------------------------------------------------------------------
(* Static helpers of coSimple.c *)

\* msg->cobId & 0b11110000000
getCOBIDType(m) == BitAnd(m.cobId, 1920)

\* getNodeId masking a whole byte
getNodeIdByte(m) == BitAnd(m.cobId, 255)

\* msg->cobId & 0b00001111111
getNodeId(m) == BitAnd(m.cobId, 127)

\* haveTimeout with > for >=
haveTimeoutStrict(nowv, startv, timeout) ==
    LET delta == Sub32(nowv, startv)
        duration == IF IsNeg32(delta) THEN Sub32(U32Zero, delta) ELSE delta
    IN  IF delta = Int32Min THEN {-1, 0}
        ELSE IF Geq32(duration, U32(timeout)) /\ duration /= U32(timeout) THEN {-1} ELSE {0}

\* haveTimeout comparing the unsigned difference, without the abs
haveTimeoutNoAbs(nowv, startv, timeout) ==
    IF Geq32(Sub32(nowv, startv), U32(timeout)) THEN {-1} ELSE {0}

\* The results haveTimeout can give for the clock value nowv: -1 timeout, 0 ok.
\* delta = INT32_MIN makes -delta overflow, which is undefined.
haveTimeout(nowv, startv, timeout) ==
    LET delta == Sub32(nowv, startv)
        duration == IF IsNeg32(delta) THEN Sub32(U32Zero, delta) ELSE delta
    IN  IF delta = Int32Min THEN {-1, 0}
        ELSE IF Geq32(duration, U32(timeout)) THEN {-1} ELSE {0}


---------------------------------------------------------------------------
(* Frames and the inputs the environment draws from *)

Frame(c, l, d) == [cobId |-> c, len |-> l, data |-> d]

\* a co_msg_t local that nothing has written yet
Indeterminate == [cobId |-> -1, len |-> -1, data |-> <<>>]

Pad(b) == <<b, 0, 0, 0, 0, 0, 0, 0>>

ValueBytes == <<170, 187, 204, 221>>       \* AA BB CC DD
AbortBytes == <<17, 0, 9, 6>>              \* abort code 0x06090011, LSB first
EmcyPayload == <<16, 32, 5, 1, 2, 3, 4, 5>>
PdoPayload == <<1, 35, 69, 103, 137, 171, 205, 239>>

SdoData(cs, il, ih, sub, tr) == <<cs, il, ih, sub>> \o tr

\* command specifiers of the responses: high nibble x low nibble
CmdSpecs ==
    {64 + l : l \in {0, 2, 3, 7, 11, 15}}
    \cup {16 * h + l : h \in {2, 6, 8, 12}, l \in {0, 3, 15}}

SdoFrames ==
    \* responses of node 7 for object 0x1018 sub 1
    {Frame(1415, 8, SdoData(cs, 24, 16, 1, ValueBytes)) : cs \in CmdSpecs}
    \cup {Frame(1415, 8, SdoData(cs, 24, 16, 1, AbortBytes)) : cs \in {67, 128, 143}}
    \* the same with one field off: other node, request class, short, index, subindex
    \cup UNION {{Frame(1416, 8, SdoData(cs, 24, 16, 1, ValueBytes)),
                 Frame(1543, 8, SdoData(cs, 24, 16, 1, ValueBytes)),
                 Frame(1415, 7, SdoData(cs, 24, 16, 1, ValueBytes)),
                 Frame(1415, 8, SdoData(cs, 25, 16, 1, ValueBytes)),
                 Frame(1415, 8, SdoData(cs, 24, 17, 1, ValueBytes)),
                 Frame(1415, 8, SdoData(cs, 24, 16, 2, ValueBytes))} : cs \in {67, 96}}
    \* responses of node 127 for object 0x1A00 sub 0
    \cup {Frame(1535, 8, SdoData(cs, 0, 26, 0, ValueBytes)) : cs \in {75, 96, 128}}

HeartbeatFrames ==
    {Frame(1799, 1, Pad(0)), Frame(1799, 1, Pad(5)), Frame(1799, 2, Pad(0)),
     Frame(1799, 0, Pad(0)), Frame(1800, 1, Pad(0)), Frame(1919, 1, Pad(0))}

EmcyFrames ==
    {Frame(135, 8, EmcyPayload), Frame(255, 8, <<0, 129, 17, 9, 8, 7, 6, 5>>),
     Frame(128, 0, Pad(0)), Frame(128, 1, Pad(3))}

PdoFrames ==
    {Frame(391, 8, PdoPayload), Frame(391, 3, <<9, 8, 7, 0, 0, 0, 0, 0>>),
     Frame(391, 0, Pad(0)), Frame(392, 8, PdoPayload), Frame(511, 2, Pad(66)),
     Frame(519, 8, PdoPayload)}

OtherFrames == {Frame(0, 2, <<1, 7, 0, 0, 0, 0, 0, 0>>), Frame(256, 6, Pad(200))}

\* what the rx collaborator can deliver: 11-bit identifier, length 0..8
Frames == SdoFrames \cup HeartbeatFrames \cup EmcyFrames \cup PdoFrames \cup OtherFrames

RxResults == {-1, 0, 1}     \* co_rx_cb_t: error, frame received, no data
TxResults == {-1, 0}        \* co_tx_cb_t: error, sent

\* arguments of the calls: object 0x1018 sub 1 of node 7 with every length (the
\* value written is 0xDDCCBBAA), object 0x1A00 sub 0 as a 16-bit value (7)
Nodes == {7, 127}
Lens == 1..4
ReadArgs ==
    {[nodeId |-> 7, index |-> 4120, subIndex |-> 1, len |-> l] : l \in Lens}
    \cup {[nodeId |-> 127, index |-> 6656, subIndex |-> 0, len |-> 2]}
WriteArgs ==
    {[nodeId |-> 7, index |-> 4120, subIndex |-> 1, len |-> l, data |-> <<56780, 48042>>] :
        l \in Lens}
    \cup {[nodeId |-> n, index |-> 6656, subIndex |-> 0, len |-> 2, data |-> <<0, 7>>] :
              n \in Nodes}

\* the longest time between two clock reads, in units of CO_TIMEOUT_SDO
MaxStepUnits == 1

\* clock values at the start of a call, and how far the clock moves between reads
StartTimes == {U32Zero, <<65535, 65520>>}        \* 0, 0xFFFFFFF0
Steps == {0} \cup UNION {{k * CO_TIMEOUT_SDO - 1, k * CO_TIMEOUT_SDO} : k \in 1..MaxStepUnits}

\* contents of the caller's output objects before a call
ValueBefore == <<57005, 48879>>
DataBefore == <<238, 238, 238, 238, 238, 238, 238, 238>>
OutBefore == [value |-> ValueBefore, data |-> DataBefore, len |-> 99]

NoEv == [rx |-> <<>>, tx |-> <<>>, txr |-> <<>>, ms |-> 0, emcy |-> <<>>, matcher |-> 0]

NoProbe == [start |-> U32Zero, now |-> U32Zero, timeout |-> 0, res |-> <<>>]

\* an empty receive source, nothing taken from it, no reset of the counter yet
NoEnv == [sent |-> <<>>, queue |-> <<>>, taken |-> <<>>, syncs |-> <<>>]

NoArgs == [op |-> "none", nodeId |-> 0, index |-> 0, subIndex |-> 0, len |-> 0,
           data |-> U32Zero, pdo |-> <<>>, req |-> 0, ms |-> U32Zero]

---------------------------------------------------------------------------
(* Matchers and codecs of the blocking calls *)

\* coNMTWaitBoot: the condition of the if in the loop
WaitBootMatch(m, nodeId) ==
    /\ COB_ID_HRTB = getCOBIDType(m)
    /\ nodeId = getNodeId(m)
    /\ 1 = m.len
    /\ 0 = m.data[1]

\* nField without the shift
NFieldUnshifted(len) == (4 - len) % 256

\* uint8_t nField = ((4 - len) << 2)
NField(len) == ((4 - len) * 4) % 256

\* SDOWriteRequest with the two low value bytes in the wrong order
SDOWriteRequestSwapped(nodeId, index, subIndex, data, len) ==
    Frame(COB_ID_RSDO + nodeId, 8,
          << BitOr(35, NField(len)),
             index % 256, (index \div 256) % 256,
             subIndex,
             IF 1 < len THEN (data[2] \div 256) % 256 ELSE 0,
             data[2] % 256,
             IF 2 < len THEN data[1] % 256 ELSE 0,
             IF 3 < len THEN (data[1] \div 256) % 256 ELSE 0 >>)

\* coSDOWrite: the request frame
SDOWriteRequest(nodeId, index, subIndex, data, len) ==
    Frame(COB_ID_RSDO + nodeId, 8,
          << BitOr(35, NField(len)),
             index % 256, (index \div 256) % 256,
             subIndex,
             data[2] % 256,
             IF 1 < len THEN (data[2] \div 256) % 256 ELSE 0,
             IF 2 < len THEN data[1] % 256 ELSE 0,
             IF 3 < len THEN (data[1] \div 256) % 256 ELSE 0 >>)

\* coSDORead: the request frame
SDOReadRequest(nodeId, index, subIndex) ==
    Frame(COB_ID_RSDO + nodeId, 8,
          <<64, index % 256, (index \div 256) % 256, subIndex, 0, 0, 0, 0>>)

\* a matcher of coSDOWrite that takes every frame
SDOWriteMatchAny(m, c) == TRUE

\* coSDOWrite: the condition of the if in the loop
SDOWriteMatch(m, c) ==
    /\ COB_ID_TSDO = getCOBIDType(m)
    /\ c.nodeId = getNodeId(m)
    /\ 8 = m.len
    /\ (c.index % 256) = m.data[2]
    /\ ((c.index \div 256) % 256) = m.data[3]
    /\ c.subIndex = m.data[4]

\* SDOWriteVerdict without the case 0x60
SDOWriteVerdictOnly20(m) == IF BitAnd(m.data[1], 240) = 32 THEN 0 ELSE -1

\* coSDOWrite: the switch on msg.data[0] & 0xf0, the int that is returned
SDOWriteVerdict(m) ==
    LET status == BitAnd(m.data[1], 240)
    IN  IF status = 32 \/ status = 96 THEN 0 ELSE -1

\* coSDORead: the condition of the if in the loop
SDOReadMatch(m, c) ==
    /\ COB_ID_TSDO = getCOBIDType(m)
    /\ c.nodeId = getNodeId(m)
    /\ 8 = m.len
    /\ (c.index % 256) = m.data[2]
    /\ ((c.index \div 256) % 256) = m.data[3]
    /\ c.subIndex = m.data[4]
    /\ 3 = BitAnd(m.data[1], 3)
    /\ NField(c.len) = BitAnd(m.data[1], 12)

\* a switch of coSDORead that takes every accepted frame as success
SDOReadVerdictAlwaysOk(m) == 0

\* coSDORead: the switch on msg.data[0] & 0xf0, the int that is returned
SDOReadVerdict(m) ==
    LET status == BitAnd(m.data[1], 240)
    IN  IF status = 64 \/ status = 96 THEN 0 ELSE -1

\* SDOReadValue taking all four data bytes whatever len is
SDOReadValueAllBytes(m, len) == <<m.data[7] + m.data[8] * 256, m.data[5] + m.data[6] * 256>>

\* coSDORead: the value stored to *data
SDOReadValue(m, len) ==
    << (IF 2 < len THEN m.data[7] ELSE 0) + (IF 3 < len THEN m.data[8] * 256 ELSE 0),
       m.data[5] + (IF 1 < len THEN m.data[6] * 256 ELSE 0) >>

---------------------------------------------------------------------------
(* Initial state *)

Init ==
    /\ pc = "idle"
    /\ call = NoArgs
    /\ msg = Indeterminate
    /\ start = U32Zero
    /\ now = U32Zero
    /\ ret = U32Zero
    /\ retAt = "none"
    /\ out = OutBefore
    /\ ev = NoEv
    /\ syncCounter = 0
    /\ syncEnable = FALSE
    /\ probe = NoProbe
    /\ env = NoEnv

\* a loop that polls on after an rx error
RxFailedNever(r) == FALSE

\* the loop condition -1 != (ret = co->rx(&msg)) fails
RxFailed(r) == -1 = r

\* Return that reports success whatever r is
ReturnZero(r, at) ==
    /\ pc' = "idle"
    /\ ret' = U32Zero
    /\ retAt' = at

\* leave a call through the return statement at, with the int r as value
Return(r, at) ==
    /\ pc' = "idle"
    /\ ret' = IntToU32(r)
    /\ retAt' = at

\* the loop goes round once more
Again ==
    /\ pc' = "poll"
    /\ ret' = U32Zero
    /\ retAt' = "none"

---------------------------------------------------------------------------
(* Operations that never wait *)

NmtReqs == {1, 129}                         \* CO_NMT_OP, CO_NMT_RST
TimeArgs == {U32Max, <<43794, 13398>>}      \* CO_TIME_USE_TIMECB, 0xAB123456
ClockValues == StartTimes \cup {<<274, 13398>>}
PdoLens == {1, 6, 8}

\* memcpy that copies one byte less
MemcpyShort(dst, src, n) == [i \in 1..Len(dst) |-> IF i < n THEN src[i] ELSE dst[i]]

\* memcpy(dst, src, n)
Memcpy(dst, src, n) == [i \in 1..Len(dst) |-> IF i <= n THEN src[i] ELSE dst[i]]

coNMTReq(nodeId, req, txr) ==
    /\ pc = "idle"
    /\ call' = [NoArgs EXCEPT !.op = "coNMTReq", !.nodeId = nodeId, !.req = req]
    /\ msg' = Frame(COB_ID_NMT, 2, <<req, nodeId, 0, 0, 0, 0, 0, 0>>)
    /\ ev' = [NoEv EXCEPT !.tx = <<msg'>>, !.txr = <<txr>>]
    /\ out' = OutBefore
    /\ start' = U32Zero
    /\ Return(txr, "tx")
    /\ UNCHANGED <<now, syncCounter, syncEnable, probe>>

\* coSYNC that advances the counter only if the frame was sent
coSYNCKeepOnError(txr) ==
    /\ pc = "idle"
    /\ call' = [NoArgs EXCEPT !.op = "coSYNC"]
    /\ IF syncEnable
       THEN /\ msg' = Frame(COB_ID_SYNC, 1, Pad(syncCounter))
            /\ syncCounter' = IF txr = 0 THEN (syncCounter + 1) % 256 ELSE syncCounter
       ELSE /\ msg' = Frame(COB_ID_SYNC, 0, Pad(0))
            /\ syncCounter' = syncCounter
    /\ ev' = [NoEv EXCEPT !.tx = <<msg'>>, !.txr = <<txr>>]
    /\ out' = OutBefore
    /\ start' = U32Zero
    /\ Return(txr, "tx")
    /\ UNCHANGED <<now, syncEnable, probe>>

\* coSYNC that hands its frame to tx twice
coSYNCTwice(txr) ==
    /\ pc = "idle"
    /\ call' = [NoArgs EXCEPT !.op = "coSYNC"]
    /\ IF syncEnable
       THEN /\ msg' = Frame(COB_ID_SYNC, 1, Pad(syncCounter))
            /\ syncCounter' = (syncCounter + 1) % 256
       ELSE /\ msg' = Frame(COB_ID_SYNC, 0, Pad(0))
            /\ syncCounter' = syncCounter
    /\ ev' = [NoEv EXCEPT !.tx = <<msg', msg'>>, !.txr = <<txr, txr>>]
    /\ out' = OutBefore
    /\ start' = U32Zero
    /\ Return(txr, "tx")
    /\ UNCHANGED <<now, syncEnable, probe>>

coSYNC(txr) ==
    /\ pc = "idle"
    /\ call' = [NoArgs EXCEPT !.op = "coSYNC"]
    /\ IF syncEnable
       THEN /\ msg' = Frame(COB_ID_SYNC, 1, Pad(syncCounter))
            /\ syncCounter' = (syncCounter + 1) % 256
       ELSE /\ msg' = Frame(COB_ID_SYNC, 0, Pad(0))
            /\ syncCounter' = syncCounter
    /\ ev' = [NoEv EXCEPT !.tx = <<msg'>>, !.txr = <<txr>>]
    /\ out' = OutBefore
    /\ start' = U32Zero
    /\ Return(txr, "tx")
    /\ UNCHANGED <<now, syncEnable, probe>>

\* coSYNCResetCounter that resets the counter to 0
coSYNCResetCounterZero ==
    /\ pc = "idle"
    /\ syncEnable
    /\ call' = [NoArgs EXCEPT !.op = "coSYNCResetCounter"]
    /\ syncCounter' = 0
    /\ ev' = NoEv
    /\ out' = OutBefore
    /\ start' = U32Zero
    /\ Return(0, "reset")
    /\ UNCHANGED <<msg, now, syncEnable, probe>>

coSYNCResetCounter ==
    /\ pc = "idle"
    /\ syncEnable
    /\ call' = [NoArgs EXCEPT !.op = "coSYNCResetCounter"]
    /\ syncCounter' = 1
    /\ ev' = NoEv
    /\ out' = OutBefore
    /\ start' = U32Zero
    /\ Return(0, "reset")
    /\ UNCHANGED <<msg, now, syncEnable, probe>>

\* coTIME that also sends the fourth byte of the millisecond value
coTIMEFourBytes(ms, t, txr) ==
    /\ pc = "idle"
    /\ call' = [NoArgs EXCEPT !.op = "coTIME", !.ms = ms]
    /\ LET useCb == (U32Max = ms)
           v == IF useCb THEN t ELSE ms
       IN  /\ now' = IF useCb THEN t ELSE now
           /\ msg' = Frame(COB_ID_TIME, 6,
                           <<v[2] % 256, (v[2] \div 256) % 256, v[1] % 256,
                             (v[1] \div 256) % 256, 0, 0, 0, 0>>)
           /\ ev' = [NoEv EXCEPT !.tx = <<msg'>>, !.txr = <<txr>>,
                                 !.ms = IF useCb THEN 1 ELSE 0]
    /\ out' = OutBefore
    /\ start' = U32Zero
    /\ Return(txr, "tx")
    /\ UNCHANGED <<syncCounter, syncEnable, probe>>

\* t is what co->ms returns if it is asked
coTIME(ms, t, txr) ==
    /\ pc = "idle"
    /\ call' = [NoArgs EXCEPT !.op = "coTIME", !.ms = ms]
    /\ LET useCb == (U32Max = ms)
           v == IF useCb THEN t ELSE ms
       IN  /\ now' = IF useCb THEN t ELSE now
           /\ msg' = Frame(COB_ID_TIME, 6,
                           <<v[2] % 256, (v[2] \div 256) % 256, v[1] % 256, 0, 0, 0, 0, 0>>)
           /\ ev' = [NoEv EXCEPT !.tx = <<msg'>>, !.txr = <<txr>>, !.ms = IF useCb THEN 1 ELSE 0]
    /\ out' = OutBefore
    /\ start' = U32Zero
    /\ Return(txr, "tx")
    /\ UNCHANGED <<syncCounter, syncEnable, probe>>

\* coTPDO that sets the length one too high
coTPDOLong(nodeId, data, len, txr) ==
    /\ pc = "idle"
    /\ call' = [NoArgs EXCEPT !.op = "coTPDO", !.nodeId = nodeId, !.pdo = data, !.len = len]
    /\ msg' = Frame(COB_ID_RPDO1 + nodeId, (len + 1) % 256, Memcpy(Pad(0), data, len))
    /\ ev' = [NoEv EXCEPT !.tx = <<msg'>>, !.txr = <<txr>>]
    /\ out' = OutBefore
    /\ start' = U32Zero
    /\ Return(txr, "tx")
    /\ UNCHANGED <<now, syncCounter, syncEnable, probe>>

coTPDO(nodeId, data, len, txr) ==
    /\ pc = "idle"
    /\ call' = [NoArgs EXCEPT !.op = "coTPDO", !.nodeId = nodeId, !.pdo = data, !.len = len]
    /\ msg' = Frame(COB_ID_RPDO1 + nodeId, len % 256, Memcpy(Pad(0), data, len))
    /\ ev' = [NoEv EXCEPT !.tx = <<msg'>>, !.txr = <<txr>>]
    /\ out' = OutBefore
    /\ start' = U32Zero
    /\ Return(txr, "tx")
    /\ UNCHANGED <<now, syncCounter, syncEnable, probe>>

\* EmcyEvent with the error code bytes swapped
EmcyEventSwapped(f) ==
    [nodeId |-> getNodeId(f), eec |-> BitOr(f.data[2], f.data[1] * 256), er |-> f.data[3],
     msef |-> SubSeq(f.data, 4, 8)]

\* the arguments coRPDO passes to co->emcy for the frame f
EmcyEvent(f) ==
    LET eec == BitOr(f.data[1], f.data[2] * 256)
    IN  [nodeId |-> getNodeId(f), eec |-> eec % 65536, er |-> f.data[3],
         msef |-> SubSeq(f.data, 4, 8)]

\* r is what co->rx returns and f the frame it stores when r = 0
coRPDO(nodeId, r, f) ==
    /\ pc = "idle"
    /\ call' = [NoArgs EXCEPT !.op = "coRPDO", !.nodeId = nodeId]
    /\ start' = U32Zero
    /\ IF 0 /= r
       THEN /\ msg' = Indeterminate
            /\ ev' = [NoEv EXCEPT !.rx = <<r>>]
            /\ out' = OutBefore
            /\ Return(r, "rx")
       ELSE LET cobId == getCOBIDType(f)
                rxNodeId == getNodeId(f)
            IN  /\ msg' = f
                /\ IF COB_ID_EMCY = cobId
                   THEN /\ ev' = [NoEv EXCEPT !.rx = <<r>>, !.emcy = <<EmcyEvent(f)>>]
                        /\ out' = OutBefore
                        /\ Return(1, "emcy")
                   ELSE IF COB_ID_TPDO1 = cobId /\ nodeId = rxNodeId
                   THEN /\ ev' = [NoEv EXCEPT !.rx = <<r>>]
                        /\ out' = [OutBefore EXCEPT !.len = f.len,
                                                    !.data = Memcpy(DataBefore, f.data, f.len)]
                        /\ Return(0, "pdo")
                   ELSE /\ ev' = [NoEv EXCEPT !.rx = <<r>>]
                        /\ out' = OutBefore
                        /\ Return(1, "unhandled")
    /\ UNCHANGED <<now, syncCounter, syncEnable, probe>>

---------------------------------------------------------------------------
(* Blocking calls: the code up to the loop, then one step per iteration *)

\* what a read of the local frame gives: an unwritten local can hold anything
Readings(m) == IF m = Indeterminate THEN Frames ELSE {m}

\* the frame in the local after co->rx returned r: rx stores f when r = 0
AfterRx(r) == IF r = 0 THEN Frames ELSE {msg}

\* t is what co->ms returns
coNMTWaitBootCall(nodeId, t) ==
    /\ pc = "idle"
    /\ call' = [NoArgs EXCEPT !.op = "coNMTWaitBoot", !.nodeId = nodeId]
    /\ start' = t
    /\ now' = t
    /\ msg' = Indeterminate
    /\ ev' = [NoEv EXCEPT !.ms = 1]
    /\ out' = OutBefore
    /\ Again
    /\ UNCHANGED <<syncCounter, syncEnable, probe>>

\* coNMTWaitBootPoll with the timeout check in front of the matcher
coNMTWaitBootPollTimeoutFirst ==
    /\ pc = "poll"
    /\ call.op = "coNMTWaitBoot"
    /\ \E r \in RxResults :
         IF RxFailed(r)
         THEN /\ ev' = [NoEv EXCEPT !.rx = <<r>>]
              /\ Return(r, "rx_error")
              /\ UNCHANGED <<msg, now>>
         ELSE \E f \in AfterRx(r) : \E seen \in Readings(f) : \E step \in Steps :
              \E t \in haveTimeout(Add32(now, U32(step)), start, CO_TIMEOUT_NMT) :
                  /\ msg' = f
                  /\ now' = Add32(now, U32(step))
                  /\ IF 0 /= t
                     THEN /\ ev' = [NoEv EXCEPT !.rx = <<r>>, !.ms = 1]
                          /\ Return(-1, "timeout")
                     ELSE /\ ev' = [NoEv EXCEPT !.rx = <<r>>, !.matcher = 1, !.ms = 1]
                          /\ IF WaitBootMatch(seen, call.nodeId)
                             THEN Return(0, "match")
                             ELSE Again
    /\ UNCHANGED <<call, start, out, syncCounter, syncEnable, probe>>

coNMTWaitBootPoll ==
    /\ pc = "poll"
    /\ call.op = "coNMTWaitBoot"
    /\ \E r \in RxResults :
         IF RxFailed(r)
         THEN /\ ev' = [NoEv EXCEPT !.rx = <<r>>]
              /\ Return(r, "rx_error")
              /\ UNCHANGED <<msg, now>>
         ELSE \E f \in AfterRx(r) : \E seen \in Readings(f) :
              /\ msg' = f
              /\ IF WaitBootMatch(seen, call.nodeId)
                 THEN /\ ev' = [NoEv EXCEPT !.rx = <<r>>, !.matcher = 1]
                      /\ Return(0, "match")
                      /\ UNCHANGED now
                 ELSE \E step \in Steps :
                      \E t \in haveTimeout(Add32(now, U32(step)), start, CO_TIMEOUT_NMT) :
                          /\ now' = Add32(now, U32(step))
                          /\ ev' = [NoEv EXCEPT !.rx = <<r>>, !.matcher = 1, !.ms = 1]
                          /\ IF 0 /= t THEN Return(-1, "timeout") ELSE Again
    /\ UNCHANGED <<call, start, out, syncCounter, syncEnable, probe>>

coSDOWriteCall(nodeId, index, subIndex, data, len, txr, t) ==
    /\ pc = "idle"
    /\ call' = [NoArgs EXCEPT !.op = "coSDOWrite", !.nodeId = nodeId, !.index = index,
                              !.subIndex = subIndex, !.data = data, !.len = len]
    /\ msg' = SDOWriteRequest(nodeId, index, subIndex, data, len)
    /\ out' = OutBefore
    /\ IF 0 /= txr
       THEN /\ ev' = [NoEv EXCEPT !.tx = <<msg'>>, !.txr = <<txr>>]
            /\ start' = U32Zero
            /\ Return(txr, "tx_error")
            /\ UNCHANGED now
       ELSE /\ ev' = [NoEv EXCEPT !.tx = <<msg'>>, !.txr = <<txr>>, !.ms = 1]
            /\ start' = t
            /\ now' = t
            /\ Again
    /\ UNCHANGED <<syncCounter, syncEnable, probe>>

coSDOWritePoll ==
    /\ pc = "poll"
    /\ call.op = "coSDOWrite"
    /\ \E r \in RxResults :
         IF RxFailed(r)
         THEN /\ ev' = [NoEv EXCEPT !.rx = <<r>>]
              /\ Return(r, "rx_error")
              /\ UNCHANGED <<msg, now>>
         ELSE \E f \in AfterRx(r) : \E seen \in Readings(f) :
              /\ msg' = f
              /\ IF SDOWriteMatch(seen, call)
                 THEN /\ ev' = [NoEv EXCEPT !.rx = <<r>>, !.matcher = 1]
                      /\ Return(SDOWriteVerdict(seen),
                                IF SDOWriteVerdict(seen) = 0 THEN "match" ELSE "abort")
                      /\ UNCHANGED now
                 ELSE \E step \in Steps :
                      \E t \in haveTimeout(Add32(now, U32(step)), start, CO_TIMEOUT_SDO) :
                          /\ now' = Add32(now, U32(step))
                          /\ ev' = [NoEv EXCEPT !.rx = <<r>>, !.matcher = 1, !.ms = 1]
                          /\ IF 0 /= t THEN Return(-1, "timeout") ELSE Again
    /\ UNCHANGED <<call, start, out, syncCounter, syncEnable, probe>>

coSDOReadCall(nodeId, index, subIndex, len, txr, t) ==
    /\ pc = "idle"
    /\ call' = [NoArgs EXCEPT !.op = "coSDORead", !.nodeId = nodeId, !.index = index,
                              !.subIndex = subIndex, !.len = len]
    /\ msg' = SDOReadRequest(nodeId, index, subIndex)
    /\ out' = OutBefore
    /\ IF 0 /= txr
       THEN /\ ev' = [NoEv EXCEPT !.tx = <<msg'>>, !.txr = <<txr>>]
            /\ start' = U32Zero
            /\ Return(txr, "tx_error")
            /\ UNCHANGED now
       ELSE /\ ev' = [NoEv EXCEPT !.tx = <<msg'>>, !.txr = <<txr>>, !.ms = 1]
            /\ start' = t
            /\ now' = t
            /\ Again
    /\ UNCHANGED <<syncCounter, syncEnable, probe>>

coSDOReadPoll ==
    /\ pc = "poll"
    /\ call.op = "coSDORead"
    /\ \E r \in RxResults :
         IF RxFailed(r)
         THEN /\ ev' = [NoEv EXCEPT !.rx = <<r>>]
              /\ Return(r, "rx_error")
              /\ UNCHANGED <<msg, now, out>>
         ELSE \E f \in AfterRx(r) : \E seen \in Readings(f) :
              /\ msg' = f
              /\ IF SDOReadMatch(seen, call)
                 THEN /\ ev' = [NoEv EXCEPT !.rx = <<r>>, !.matcher = 1]
                      /\ IF SDOReadVerdict(seen) = 0
                         THEN /\ out' = [out EXCEPT !.value = SDOReadValue(seen, call.len)]
                              /\ Return(0, "match")
                         ELSE /\ out' = out
                              /\ Return(-1, "abort")
                      /\ UNCHANGED now
                 ELSE \E step \in Steps :
                      \E t \in haveTimeout(Add32(now, U32(step)), start, CO_TIMEOUT_SDO) :
                          /\ now' = Add32(now, U32(step))
                          /\ ev' = [NoEv EXCEPT !.rx = <<r>>, !.matcher = 1, !.ms = 1]
                          /\ out' = out
                          /\ IF 0 /= t THEN Return(-1, "timeout") ELSE Again
    /\ UNCHANGED <<call, start, syncCounter, syncEnable, probe>>

---------------------------------------------------------------------------
(* Specification *)

Next ==
    \/ /\ \E n \in Nodes \cup {0}, q \in NmtReqs, x \in TxResults : coNMTReq(n, q, x)
       /\ UNCHANGED env
    \/ /\ \E n \in Nodes, t \in StartTimes : coNMTWaitBootCall(n, t)
       /\ UNCHANGED env
    \/ /\ coNMTWaitBootPoll
       /\ UNCHANGED env
    \/ /\ \E x \in TxResults : coSYNC(x)
       /\ UNCHANGED env
    \/ /\ \E m \in TimeArgs, x \in TxResults :
              \E t \in (IF m = U32Max THEN ClockValues ELSE {now}) : coTIME(m, t, x)
       /\ UNCHANGED env
    \/ /\ \E n \in Nodes, l \in PdoLens, x \in TxResults : coTPDO(n, PdoPayload, l, x)
       /\ UNCHANGED env
    \/ /\ \E n \in Nodes, r \in RxResults :
              \E f \in (IF r = 0 THEN Frames ELSE {Indeterminate}) : coRPDO(n, r, f)
       /\ UNCHANGED env
    \/ /\ \E a \in WriteArgs, x \in TxResults :
              \E t \in (IF x = 0 THEN StartTimes ELSE {now}) :
                  coSDOWriteCall(a.nodeId, a.index, a.subIndex, a.data, a.len, x, t)
       /\ UNCHANGED env
    \/ /\ coSDOWritePoll
       /\ UNCHANGED env
    \/ /\ \E a \in ReadArgs, x \in TxResults :
              \E t \in (IF x = 0 THEN StartTimes ELSE {now}) :
                  coSDOReadCall(a.nodeId, a.index, a.subIndex, a.len, x, t)
       /\ UNCHANGED env
    \/ /\ coSDOReadPoll
       /\ UNCHANGED env

Spec == Init /\ [][Next]_vars

\* Every call ends if rx does not block and the clock keeps advancing: a poll
\* that ends the call or reads a later clock value is always possible.
PollProgress ==
    /\ (coNMTWaitBootPoll \/ coSDOWritePoll \/ coSDOReadPoll)
    /\ (pc' = "idle" \/ now' /= now)
    /\ UNCHANGED env

SpecLive == Init /\ [][Next]_vars /\ WF_vars(PollProgress)

---------------------------------------------------------------------------
(* haveTimeout on its own: one evaluation for arguments from bounded sets *)

ProbeStarts == {U32Zero, <<0, 16>>, <<0, 3000>>, <<32767, 65535>>, <<65535, 65520>>}
ProbeNows == {U32Zero, <<0, 16>>, <<0, 99>>, <<0, 100>>, <<0, 116>>, <<0, 256>>,
              <<0, 2999>>, <<0, 6000>>, <<32767, 65535>>, <<32768, 1>>,
              <<65535, 65520>>, <<65535, 65534>>}
ProbeTimeouts == {1, 100, CO_TIMEOUT_SDO, CO_TIMEOUT_NMT}

InitTimeout ==
    /\ pc = "idle"
    /\ call = NoArgs
    /\ msg = Indeterminate
    /\ start = U32Zero
    /\ now = U32Zero
    /\ ret = U32Zero
    /\ retAt = "none"
    /\ out = OutBefore
    /\ ev = NoEv
    /\ syncCounter = 0
    /\ syncEnable = FALSE
    /\ \E s \in ProbeStarts, n \in ProbeNows, b \in ProbeTimeouts :
           probe = [start |-> s, now |-> n, timeout |-> b, res |-> <<>>]
    /\ env = NoEnv

haveTimeoutEval ==
    /\ probe.res = <<>>
    /\ \E t \in haveTimeout(probe.now, probe.start, probe.timeout) :
           probe' = [probe EXCEPT !.res = <<t>>]
    /\ UNCHANGED <<pc, call, msg, start, now, ret, retAt, out, ev, syncCounter, syncEnable,
                   env>>

NextTimeout == haveTimeoutEval

SpecTimeout == InitTimeout /\ [][NextTimeout]_vars

---------------------------------------------------------------------------
(* The build with CO_SYNC_COUNTER_ENABLE defined: SYNC with its counter, and *)
(* process data sent in between                                              *)

InitSync ==
    /\ pc = "idle"
    /\ call = NoArgs
    /\ msg = Indeterminate
    /\ start = U32Zero
    /\ now = U32Zero
    /\ ret = U32Zero
    /\ retAt = "none"
    /\ out = OutBefore
    /\ ev = NoEv
    /\ syncCounter = 0
    /\ syncEnable = TRUE
    /\ probe = NoProbe
    /\ env = NoEnv

NextSync ==
    \/ /\ \E x \in TxResults : coSYNC(x)
       /\ UNCHANGED env
    \/ /\ coSYNCResetCounter
       /\ UNCHANGED env
    \/ /\ \E x \in TxResults : coTPDO(7, PdoPayload, 1, x)
       /\ UNCHANGED env

SpecSync == InitSync /\ [][NextSync]_vars

---------------------------------------------------------------------------
(* A value written and read back: coSDOWrite has sent its request, the node *)
(* answers a coSDORead of the same object and length with the bytes it got  *)

RoundTripNodes == {1, 7, 127}
RoundTripObjects == {<<4120, 1>>, <<65535, 255>>, <<0, 0>>}
RoundTripValues == {U32Zero, <<0, 255>>, <<0, 4660>>, <<4660, 22136>>, <<32768, 0>>,
                    <<56780, 48042>>, U32Max}

\* the state in which coSDOWrite has sent the request and starts to poll
InitRoundTrip ==
    /\ pc = "poll"
    /\ \E n \in RoundTripNodes, o \in RoundTripObjects, v \in RoundTripValues, l \in Lens :
           /\ call = [NoArgs EXCEPT !.op = "coSDOWrite", !.nodeId = n, !.index = o[1],
                                    !.subIndex = o[2], !.data = v, !.len = l]
           /\ msg = SDOWriteRequest(n, o[1], o[2], v, l)
    /\ start = U32Zero
    /\ now = U32Zero
    /\ ret = U32Zero
    /\ retAt = "none"
    /\ out = OutBefore
    /\ ev = [NoEv EXCEPT !.tx = <<msg>>, !.txr = <<0>>, !.ms = 1]
    /\ syncCounter = 0
    /\ syncEnable = FALSE
    /\ probe = NoProbe
    /\ env = NoEnv

\* the upload response of node nodeId that carries the data bytes of the request req
EchoResponse(req, nodeId, len) ==
    Frame(COB_ID_TSDO + nodeId, 8,
          <<67 + 4 * (4 - len), req.data[2], req.data[3], req.data[4],
            req.data[5], req.data[6], req.data[7], req.data[8]>>)

\* one iteration of the loop of coSDORead, called with the node, object and length
\* of the write, in which rx delivers the echo of the written bytes
coSDOReadEcho ==
    /\ pc = "poll"
    /\ call.op = "coSDOWrite"
    /\ LET f == EchoResponse(msg, call.nodeId, call.len)
       IN  /\ msg' = f
           /\ call' = [call EXCEPT !.op = "coSDORead"]
           /\ IF SDOReadMatch(f, call)
              THEN /\ ev' = [NoEv EXCEPT !.rx = <<0>>, !.matcher = 1]
                   /\ IF SDOReadVerdict(f) = 0
                      THEN /\ out' = [out EXCEPT !.value = SDOReadValue(f, call.len)]
                           /\ Return(0, "match")
                      ELSE /\ out' = out
                           /\ Return(-1, "abort")
              ELSE /\ ev' = [NoEv EXCEPT !.rx = <<0>>, !.matcher = 1, !.ms = 1]
                   /\ out' = out
                   /\ Again
    /\ UNCHANGED <<start, now, syncCounter, syncEnable, probe, env>>

NextRoundTrip == coSDOReadEcho

SpecRoundTrip == InitRoundTrip /\ [][NextRoundTrip]_vars

---------------------------------------------------------------------------
(* getCOBIDType and getNodeId on their own: applied to the frame of the last *)
(* call, a frame built by coTPDO, coSDOWrite or coSDORead or received by     *)
(* coRPDO with any 16-bit identifier                                         *)

ClassifyNodes == 1 .. 127
ClassifyBases == {COB_ID_EMCY, COB_ID_TPDO1, COB_ID_RPDO1, COB_ID_TSDO, COB_ID_RSDO,
                  COB_ID_HRTB}

\* identifiers rx can store in the uint16_t cobId: every base + node, and others
ClassifyIds ==
    {b + n : b \in ClassifyBases, n \in ClassifyNodes}
    \cup {0, 128, 256, 640, 2047, 2048, 32903, 65535}

getCOBIDEval ==
    /\ pc = "idle"
    /\ msg /= Indeterminate
    /\ probe' = [cobId |-> msg.cobId, type |-> getCOBIDType(msg), node |-> getNodeId(msg)]
    /\ UNCHANGED <<pc, call, msg, start, now, ret, retAt, out, ev, syncCounter, syncEnable,
                   env>>

NextClassify ==
    \/ /\ probe = NoProbe
       /\ \E n \in ClassifyNodes : coTPDO(n, PdoPayload, 1, 0)
       /\ UNCHANGED env
    \/ /\ probe = NoProbe
       /\ \E n \in ClassifyNodes : coSDOWriteCall(n, 4120, 1, U32Zero, 4, -1, now)
       /\ UNCHANGED env
    \/ /\ probe = NoProbe
       /\ \E n \in ClassifyNodes : coSDOReadCall(n, 4120, 1, 4, -1, now)
       /\ UNCHANGED env
    \/ /\ probe = NoProbe
       /\ \E c \in ClassifyIds : coRPDO(7, 0, Frame(c, 0, Pad(0)))
       /\ UNCHANGED env
    \/ /\ probe = NoProbe
       /\ getCOBIDEval

SpecClassify == Init /\ [][NextClassify]_vars

---------------------------------------------------------------------------
(* The build with CO_SYNC_COUNTER_ENABLE defined, every operation: env.syncs *)
(* counts the coSYNC calls since the last coSYNCResetCounter, modulo 256     *)

\* the frames rx delivers here: a boot-up frame, a download and an upload response
SyncFrames ==
    {Frame(1799, 1, Pad(0)),
     Frame(1415, 8, SdoData(96, 24, 16, 1, ValueBytes)),
     Frame(1415, 8, SdoData(67, 24, 16, 1, ValueBytes))}

\* rx stores a frame of SyncFrames if it stores one, and the clock stands still
\* or moves by CO_TIMEOUT_SDO between two reads
RxSyncFrames ==
    /\ ev'.rx = <<0>> => msg' \in SyncFrames
    /\ now' \in {now, Add32(now, U32(CO_TIMEOUT_SDO))}

CountSync ==
    env' = [env EXCEPT !.syncs = IF @ = <<>> THEN @ ELSE <<(@[1] + 1) % 256>>]

NextSyncAll ==
    \/ /\ \E x \in TxResults : coSYNC(x)
       /\ CountSync
    \/ /\ coSYNCResetCounter
       /\ env' = [env EXCEPT !.syncs = <<0>>]
    \/ /\ coNMTReq(0, 129, 0)
       /\ UNCHANGED env
    \/ /\ coTIME(U32Max, U32Zero, 0)
       /\ UNCHANGED env
    \/ /\ coTPDO(7, PdoPayload, 1, 0)
       /\ UNCHANGED env
    \/ /\ \E f \in {Frame(391, 8, PdoPayload), Frame(135, 8, EmcyPayload)} : coRPDO(7, 0, f)
       /\ UNCHANGED env
    \/ /\ coNMTWaitBootCall(7, U32Zero)
       /\ UNCHANGED env
    \/ /\ coNMTWaitBootPoll
       /\ RxSyncFrames
       /\ UNCHANGED env
    \/ /\ coSDOWriteCall(7, 4120, 1, <<0, 7>>, 1, 0, U32Zero)
       /\ UNCHANGED env
    \/ /\ coSDOWritePoll
       /\ RxSyncFrames
       /\ UNCHANGED env
    \/ /\ coSDOReadCall(7, 4120, 1, 4, 0, U32Zero)
       /\ UNCHANGED env
    \/ /\ coSDOReadPoll
       /\ RxSyncFrames
       /\ UNCHANGED env

SpecSyncAll == InitSync /\ [][NextSyncAll]_vars

---------------------------------------------------------------------------
(* One receive source for two paths: coSDOWrite polls in the main loop while *)
(* can_rx_irq may run coRPDO in between; rx hands out the pending frames in  *)
(* order, each to the call that asked                                        *)

\* the download response of node 7, a TPDO1 of node 7, a heartbeat of node 7
ContendFrames ==
    {Frame(1415, 8, SdoData(96, 24, 16, 1, ValueBytes)),
     Frame(391, 3, <<9, 8, 7, 0, 0, 0, 0, 0>>),
     Frame(1799, 1, Pad(5))}

\* the frames pending at the start: any of ContendFrames, none twice, in any order
ContendQueues ==
    {q \in UNION {[1 .. n -> ContendFrames] : n \in 0 .. Cardinality(ContendFrames)} :
        \A i, j \in DOMAIN q : q[i] = q[j] => i = j}

InitContend ==
    /\ pc = "idle"
    /\ call = NoArgs
    /\ msg = Indeterminate
    /\ start = U32Zero
    /\ now = U32Zero
    /\ ret = U32Zero
    /\ retAt = "none"
    /\ out = OutBefore
    /\ ev = NoEv
    /\ syncCounter = 0
    /\ syncEnable = FALSE
    /\ probe = NoProbe
    /\ \E q \in ContendQueues : env = [NoEnv EXCEPT !.sent = q, !.queue = q]

\* the rx call of the step is served from the receive source: no data if nothing
\* is pending, else the oldest pending frame, which is then gone from the source
RxFromQueue(by) ==
    IF env.queue = <<>>
    THEN /\ ev'.rx = <<1>>
         /\ env' = env
    ELSE /\ ev'.rx = <<0>>
         /\ msg' = Head(env.queue)
         /\ env' = [env EXCEPT !.queue = Tail(@),
                               !.taken = Append(@, [by |-> by, frame |-> Head(env.queue),
                                                    res |-> retAt'])]

\* coRPDOIrq that reads the pending frame without taking it from the source
coRPDOIrqPeek ==
    /\ pc = "poll"
    /\ env.queue /= <<>>
    /\ LET f == Head(env.queue)
           res == IF COB_ID_EMCY = getCOBIDType(f) THEN "emcy"
                  ELSE IF COB_ID_TPDO1 = getCOBIDType(f) /\ 7 = getNodeId(f) THEN "pdo"
                  ELSE "unhandled"
       IN  /\ env' = [env EXCEPT !.taken = Append(@, [by |-> "irq", frame |-> f, res |-> res])]
           /\ out' = IF res = "pdo"
                     THEN [out EXCEPT !.len = f.len, !.data = Memcpy(out.data, f.data, f.len)]
                     ELSE out
    /\ UNCHANGED <<pc, call, msg, start, now, ret, retAt, ev, syncCounter, syncEnable, probe>>

\* can_rx_irq during a blocking call: coRPDO(&co, 7, rpdo, &len) with locals of
\* its own takes the oldest pending frame; the interrupted call goes on after it
coRPDOIrq ==
    /\ pc = "poll"
    /\ env.queue /= <<>>
    /\ LET f == Head(env.queue)
           res == IF COB_ID_EMCY = getCOBIDType(f) THEN "emcy"
                  ELSE IF COB_ID_TPDO1 = getCOBIDType(f) /\ 7 = getNodeId(f) THEN "pdo"
                  ELSE "unhandled"
       IN  /\ env' = [env EXCEPT !.queue = Tail(@),
                                 !.taken = Append(@, [by |-> "irq", frame |-> f, res |-> res])]
           /\ out' = IF res = "pdo"
                     THEN [out EXCEPT !.len = f.len, !.data = Memcpy(out.data, f.data, f.len)]
                     ELSE out
    /\ UNCHANGED <<pc, call, msg, start, now, ret, retAt, ev, syncCounter, syncEnable, probe>>

NextContend ==
    \/ /\ coSDOWriteCall(7, 4120, 1, <<0, 7>>, 1, 0, U32Zero)
       /\ UNCHANGED env
    \/ /\ coSDOWritePoll
       /\ RxFromQueue("poll")
    \/ coRPDOIrq
    \/ /\ \E r \in {0, 1} :
              \E f \in (IF r = 0 THEN ContendFrames ELSE {Indeterminate}) : coRPDO(7, r, f)
       /\ RxFromQueue("coRPDO")

SpecContend == InitContend /\ [][NextContend]_vars

---------------------------------------------------------------------------
(* Properties *)

\* (now - start) modulo 2^32 as of the last clock reading
Elapsed == Sub32(now, start)

\* the last step was a loop iteration of the blocking call op
Polled(op) == call.op = op /\ ev.rx /= <<>>

\* the last step was a loop iteration of op in which rx stored a frame
Received(op) == call.op = op /\ ev.rx = <<0>>

\* the boot-up frame of node: identifier 0x700+node, length 1, data byte 0x00
IsBootFrame(m, node) == m.cobId = 1792 + node /\ m.len = 1 /\ m.data[1] = 0

\* C1: coNMTWaitBoot returns 0 when rx delivers the boot-up frame of the node,
\* and Timeout (-1), with the boot bound elapsed, when the call ends without an
\* rx error and without that frame having been delivered.
C1_BootWaitVerdict ==
    (pc = "idle" /\ Polled("coNMTWaitBoot") /\ ev.rx /= <<-1>>) =>
        IF ev.rx = <<0>> /\ IsBootFrame(msg, call.nodeId)
        THEN ret = IntToU32(0)
        ELSE ret = IntToU32(-1) /\ retAt = "timeout" /\ Geq32(Elapsed, U32(3000))

\* a response of the awaited node for the requested object: class 0x580, length 8,
\* index and subindex bytes of the request
IsResponseFor(m, c) ==
    /\ m.cobId = 1408 + c.nodeId
    /\ m.len = 8
    /\ m.data[2] = c.index % 256
    /\ m.data[3] = c.index \div 256
    /\ m.data[4] = c.subIndex

\* C2: a coSDORead poll that receives the node's response for the requested
\* object with command specifier 0x80 ends the call with the abort verdict.
C2_ReadAbortEndsCall ==
    (Received("coSDORead") /\ IsResponseFor(msg, call) /\ msg.data[1] = 128) =>
        (pc = "idle" /\ retAt = "abort" /\ ret = U32Max)

\* the little-endian number of the first len of the bytes m.data[5..8]
LittleEndian(m, len) ==
    << (IF len >= 3 THEN m.data[7] ELSE 0) + (IF len >= 4 THEN 256 * m.data[8] ELSE 0),
       m.data[5] + (IF len >= 2 THEN 256 * m.data[6] ELSE 0) >>

\* what coSDORead accepts as the response to the call c
ReadAccepts(m, c) ==
    /\ IsResponseFor(m, c)
    /\ m.data[1] % 4 = 3
    /\ (m.data[1] \div 4) % 4 = 4 - c.len

\* C3: coSDORead gives a verdict exactly on the frames ReadAccepts describes; on
\* an accepted frame with high nibble 0x4 or 0x6 it returns 0 with the
\* little-endian value of data bytes 4..4+len-1, and 0x1018 sub 1 len 4 answered
\* by [43 18 10 01 AA BB CC DD] gives 0xDDCCBBAA.
C3_ReadAcceptAndValue ==
    /\ (pc = "idle" /\ Polled("coSDORead") /\ retAt \in {"match", "abort"}) =>
           ReadAccepts(msg, call)
    /\ (Received("coSDORead") /\ ReadAccepts(msg, call)) =>
           /\ pc = "idle"
           /\ IF msg.data[1] \div 16 \in {4, 6}
              THEN ret = U32Zero /\ retAt = "match" /\ out.value = LittleEndian(msg, call.len)
              ELSE ret = U32Max /\ retAt = "abort"
    /\ (/\ Received("coSDORead")
        /\ call.nodeId = 7 /\ call.index = 4120 /\ call.subIndex = 1 /\ call.len = 4
        /\ msg = Frame(1415, 8, <<67, 24, 16, 1, 170, 187, 204, 221>>)) =>
           (ret = U32Zero /\ out.value = <<56780, 48042>>)

C3_Witness ==
    /\ pc = "idle" /\ Received("coSDORead") /\ call.len = 4
    /\ msg = Frame(1415, 8, <<67, 24, 16, 1, 170, 187, 204, 221>>)
    /\ ret = U32Zero /\ out.value = <<56780, 48042>>

\* C4: coSDOWrite gives a verdict exactly on the node's responses for the
\* requested object (class 0x580, node, length 8, index, subindex); it returns 0
\* exactly when the high nibble of the command specifier is 0x2 or 0x6 and the
\* abort result otherwise.
C4_WriteAcceptAndVerdict ==
    /\ (pc = "idle" /\ Polled("coSDOWrite") /\ retAt \in {"match", "abort"}) =>
           IsResponseFor(msg, call)
    /\ (Received("coSDOWrite") /\ IsResponseFor(msg, call)) =>
           /\ pc = "idle"
           /\ IF msg.data[1] \div 16 \in {2, 6}
              THEN ret = U32Zero /\ retAt = "match"
              ELSE ret = U32Max /\ retAt = "abort"

C4_Witness ==
    /\ pc = "idle" /\ Received("coSDOWrite") /\ IsResponseFor(msg, call)
    /\ msg.data[1] = 128 /\ ret = U32Max /\ retAt = "abort"

Blocking == {"coNMTWaitBoot", "coSDOWrite", "coSDORead"}

\* the timeout bound of the blocking call in progress, in ms
Bound == IF call.op = "coNMTWaitBoot" THEN 3000 ELSE 1000

C6_RxErrorEndsCall ==
    (call.op \in Blocking /\ ev.rx /= <<>> /\ ev.rx[1] = -1) =>
        /\ pc = "idle"
        /\ ret = IntToU32(-1)
        /\ retAt = "rx_error"
        /\ ev = [NoEv EXCEPT !.rx = <<-1>>]

C6_Witness ==
    /\ pc = "idle" /\ call.op = "coSDOWrite" /\ ev.rx = <<-1>> /\ retAt = "rx_error"

\* haveTimeout has been evaluated for the arguments in probe
Probed == probe.res /= <<>>

\* (now - start) modulo 2^32 of the probe
ProbeElapsed == Sub32(probe.now, probe.start)

\* the magnitude of a 32-bit pattern read as int32_t: e below 2^31, else 2^32 - e
Magnitude(e) ==
    IF e[1] < 32768 THEN e
    ELSE IF e[2] = 0 THEN <<65536 - e[1], 0>> ELSE <<65535 - e[1], 65536 - e[2]>>

\* C7 as stated: haveTimeout reports expired exactly when the elapsed time
\* modulo 2^32 is at least the bound.
C7_ExpiredIffElapsed ==
    Probed => (probe.res = <<-1>> <=> Geq32(ProbeElapsed, U32(probe.timeout)))

\* C7 amended: haveTimeout reports expired exactly when the magnitude of the
\* signed 32-bit difference now - start is at least the bound (the difference
\* -2^31, whose negation overflows, left aside); whenever less than 2^31 ms have
\* elapsed that is the elapsed time, across a counter wrap too:
\* start 0xFFFFFFF0, bound 100 is not expired at 0x10 and expired at 0x100.
C7_ExpiredIffMagnitude ==
    /\ (Probed /\ ProbeElapsed /= Int32Min) =>
           (probe.res = <<-1>> <=> Geq32(Magnitude(ProbeElapsed), U32(probe.timeout)))
    /\ (Probed /\ ProbeElapsed[1] < 32768) =>
           (probe.res = <<-1>> <=> Geq32(ProbeElapsed, U32(probe.timeout)))
    /\ (Probed /\ probe.start = <<65535, 65520>> /\ probe.timeout = 100) =>
           /\ probe.now = <<0, 16>> => probe.res = <<0>>
           /\ probe.now = <<0, 256>> => probe.res = <<-1>>

\* the clock reads 16 ms below start: 2^32 - 16 ms elapsed, magnitude 16
C7_Witness ==
    /\ probe = [start |-> <<0, 16>>, now |-> U32Zero, timeout |-> 100, res |-> <<0>>]

\* the abort code a server puts into bytes 4..7 of its abort response
AbortCode(m) == <<m.data[7] + 256 * m.data[8], m.data[5] + 256 * m.data[6]>>

\* C8: coSDOWrite and coSDORead return 0 on success and, when the accepted
\* response is the server's abort (command specifier high nibble 0x8), the abort
\* code of that response.
C8_AbortCodeReturned ==
    (pc = "idle" /\ call.op \in {"coSDOWrite", "coSDORead"}) =>
        /\ retAt = "match" => ret = U32Zero
        /\ (retAt = "abort" /\ msg.data[1] \div 16 = 8) => ret = AbortCode(msg)

\* the frame rx stored in the coRPDO call, if it stored one
RpdoReceived == call.op = "coRPDO" /\ ev.rx = <<0>>

\* C9: coRPDO(node) receiving 0x180+node returns 0 with the caller's length set
\* to the frame's length and the frame's payload bytes in the caller's buffer;
\* receiving 0x180+m for another m it returns 1, leaves the caller's data and
\* length as they were and does not invoke the emergency sink.
C9_RpdoDispatch ==
    /\ (RpdoReceived /\ msg.cobId = 384 + call.nodeId) =>
           /\ ret = IntToU32(0)
           /\ out.len = msg.len
           /\ \A i \in 1..8 : out.data[i] = IF i <= msg.len THEN msg.data[i] ELSE DataBefore[i]
    /\ (RpdoReceived /\ msg.cobId \in 384..511 /\ msg.cobId /= 384 + call.nodeId) =>
           /\ ret = IntToU32(1)
           /\ out = OutBefore
           /\ ev.emcy = <<>>

C9_Witness ==
    /\ pc = "idle" /\ RpdoReceived /\ call.nodeId = 7
    /\ msg = Frame(391, 3, <<9, 8, 7, 0, 0, 0, 0, 0>>)
    /\ ret = IntToU32(0) /\ out.len = 3 /\ out.data = <<9, 8, 7, 238, 238, 238, 238, 238>>

\* C10: coRPDO receiving a frame of class 0x080 invokes the emergency sink once,
\* with node = low 7 identifier bits, error code = data[0] + 256*data[1], error
\* register = data[2], manufacturer field = data[3..7], returns 1 and writes
\* neither the caller's data nor length; 0x087 [10 20 05 01 02 03 04 05] gives
\* node 7, code 0x2010, register 5, field [1,2,3,4,5].
C10_EmergencyDecode ==
    /\ (RpdoReceived /\ msg.cobId \in 128..255) =>
           /\ ev.emcy = <<[nodeId |-> msg.cobId - 128,
                           eec |-> msg.data[1] + 256 * msg.data[2],
                           er |-> msg.data[3],
                           msef |-> <<msg.data[4], msg.data[5], msg.data[6], msg.data[7],
                                      msg.data[8]>>]>>
           /\ ret = IntToU32(1)
           /\ out = OutBefore
    /\ (RpdoReceived /\ msg = Frame(135, 8, <<16, 32, 5, 1, 2, 3, 4, 5>>)) =>
           ev.emcy = <<[nodeId |-> 7, eec |-> 8208, er |-> 5, msef |-> <<1, 2, 3, 4, 5>>]>>

C10_Witness ==
    /\ pc = "idle" /\ RpdoReceived /\ msg = Frame(135, 8, <<16, 32, 5, 1, 2, 3, 4, 5>>)
    /\ Len(ev.emcy) = 1 /\ ev.emcy[1].eec = 8208 /\ ret = IntToU32(1)

\* C11: with the counter feature enabled every SYNC frame has identifier 0x080
\* and length 1; the SYNC frame sent right after coSYNCResetCounter carries 1,
\* a SYNC frame sent right after another carries that one's value plus 1
\* modulo 256, and since every SYNC frame carries co->syncCounter and leaves it
\* one higher (modulo 256) while no call other than coSYNC and
\* coSYNCResetCounter changes it, the same holds with other calls in between.
C11_SyncCounterSequence ==
    [][ /\ (syncEnable /\ call'.op = "coSYNC") =>
              /\ ev'.tx = <<msg'>>
              /\ msg'.cobId = 128
              /\ msg'.len = 1
              /\ call.op = "coSYNCResetCounter" => msg'.data[1] = 1
              /\ call.op = "coSYNC" => msg'.data[1] = (msg.data[1] + 1) % 256
              /\ msg'.data[1] = syncCounter
              /\ syncCounter' = (msg'.data[1] + 1) % 256
        /\ call'.op = "coSYNCResetCounter" => syncCounter' = 1
        /\ call'.op \notin {"coSYNC", "coSYNCResetCounter"} => syncCounter' = syncCounter
      ]_vars

\* the SYNC frame with value 255 has been sent, the next one carries 0
C11_Witness ==
    /\ syncEnable /\ call.op = "coSYNC" /\ msg = Frame(128, 1, Pad(255)) /\ syncCounter = 0

\* v modulo 2^(8*len)
LowBytes(v, len) ==
    IF len = 1 THEN <<0, v[2] % 256>>
    ELSE IF len = 2 THEN <<0, v[2]>>
    ELSE IF len = 3 THEN <<v[1] % 256, v[2]>>
    ELSE v

\* coSDORead has been given the echo of what coSDOWrite sent for call.data
EchoRead == call.op = "coSDORead" /\ ev.rx = <<0>>

\* C12: the data bytes coSDOWrite sends for (v, len), put into a response
\* 0x580+node of length 8 with the same index and subindex and command specifier
\* 0x43 | ((4-len)<<2), make coSDORead with the same node, object and len return
\* success with the value v mod 2^(8*len), which is v when v fits in len bytes.
C12_WriteReadRoundTrip ==
    EchoRead =>
        /\ msg.cobId = 1408 + call.nodeId /\ msg.len = 8
        /\ msg.data[1] = 67 + 4 * (4 - call.len)
        /\ pc = "idle"
        /\ ret = U32Zero
        /\ retAt = "match"
        /\ out.value = LowBytes(call.data, call.len)
        /\ (call.data = LowBytes(call.data, call.len)) => out.value = call.data

\* 0x12345678 written with len 2 reads back as 0x5678
C12_Witness ==
    /\ EchoRead /\ call.nodeId = 127 /\ call.len = 2 /\ call.data = <<4660, 22136>>
    /\ ret = U32Zero /\ out.value = <<0, 22136>>

\* getCOBIDType and getNodeId have been applied to the frame of the last call
Classified == "cobId" \in DOMAIN probe

\* C13: for every node n in 1..127 and every base B of a per-node service the
\* identifier B+n has class B and node n; the identifier coTPDO builds decodes
\* to (0x200, node) and the one coSDOWrite and coSDORead build to (0x600, node);
\* for every 16-bit identifier both functions give a result: a multiple of 0x80
\* up to 0x780 and a number in 0..127 that add up to the low 11 identifier bits.
C13_ClassifyDecodesNode ==
    Classified =>
        /\ \A b \in {128, 384, 512, 1408, 1536, 1792} : \A n \in 1 .. 127 :
               probe.cobId = b + n => (probe.type = b /\ probe.node = n)
        /\ call.op = "coTPDO" =>
               (probe.cobId = 512 + call.nodeId /\ probe.type = 512 /\ probe.node = call.nodeId)
        /\ call.op \in {"coSDOWrite", "coSDORead"} =>
               (probe.cobId = 1536 + call.nodeId /\ probe.type = 1536
                    /\ probe.node = call.nodeId)
        /\ probe.type \in {128 * k : k \in 0 .. 15}
        /\ probe.node \in 0 .. 127
        /\ probe.type + probe.node = probe.cobId % 2048

\* the request identifier of coSDORead for node 127 decoded
C13_Witness ==
    /\ Classified /\ call.op = "coSDORead" /\ call.nodeId = 127
    /\ probe = [cobId |-> 1663, type |-> 1536, node |-> 127]

\* C14: coNMTWaitBoot(node) returns success only on a frame rx delivered whose
\* class is 0x700, whose low 7 identifier bits are node, whose length is 1 and
\* whose data byte is 0.
C14_BootSuccessOnlyOnBootFrame ==
    (pc = "idle" /\ call.op = "coNMTWaitBoot" /\ retAt = "match") =>
        /\ ev.rx = <<0>>
        /\ msg.cobId \div 128 = 14
        /\ msg.cobId % 128 = call.nodeId
        /\ msg.len = 1
        /\ msg.data[1] = 0

Cyclic == {"coSYNC", "coTPDO", "coRPDO"}

\* C15: coSYNC and coTPDO call tx exactly once and neither rx, the clock nor the
\* emergency sink; coRPDO calls rx exactly once and neither tx nor the clock;
\* each is over in one step; and when rx reports 1 or -1 coRPDO returns that
\* value, does not invoke the emergency sink and leaves the outputs alone.
C15_CyclicNonBlocking ==
    /\ call.op \in Cyclic => (pc = "idle" /\ ev.ms = 0 /\ ev.matcher = 0)
    /\ call.op \in {"coSYNC", "coTPDO"} =>
           (Len(ev.tx) = 1 /\ ev.rx = <<>> /\ ev.emcy = <<>>)
    /\ call.op = "coRPDO" =>
           /\ Len(ev.rx) = 1 /\ ev.tx = <<>>
           /\ ev.rx[1] \in {1, -1} =>
                  (ret = IntToU32(ev.rx[1]) /\ ev.emcy = <<>> /\ out = OutBefore)

\* coRPDO with nothing to receive
C15_Witness ==
    /\ pc = "idle" /\ call.op = "coRPDO" /\ ev.rx = <<1>> /\ ret = IntToU32(1)
    /\ out = OutBefore

SendsOnce == {"coNMTReq", "coSYNC", "coTIME", "coTPDO"}

\* C16: no step hands more than one frame to tx and the loop of a blocking call
\* hands none, so a call sends at most once; when tx reports an error the call
\* is over in that step and returns the error, and coSDOWrite and coSDORead
\* have then neither read the clock nor called rx.
C16_TxErrorSurfaced ==
    /\ Len(ev.tx) <= 1 /\ Len(ev.txr) = Len(ev.tx)
    /\ ev.rx /= <<>> => ev.tx = <<>>
    /\ call.op \in SendsOnce => Len(ev.tx) = 1
    /\ (ev.txr /= <<>> /\ ev.txr[1] /= 0) =>
           /\ pc = "idle"
           /\ ret = IntToU32(ev.txr[1])
           /\ ev.rx = <<>> /\ ev.matcher = 0
           /\ call.op \in {"coSDOWrite", "coSDORead"} => (ev.ms = 0 /\ retAt = "tx_error")

C16_Witness ==
    /\ pc = "idle" /\ call.op = "coSDORead" /\ ev.txr = <<-1>> /\ ret = IntToU32(-1)
    /\ retAt = "tx_error" /\ ev.ms = 0

\* C17: whenever coRPDO returns 0 (process data received) the length it reports
\* is in 1..8 and at most 8 bytes of the caller's buffer have been written.
C17_RpdoLengthRange ==
    (pc = "idle" /\ call.op = "coRPDO" /\ retAt = "pdo" /\ ret = IntToU32(0)) =>
        /\ out.len \in 1 .. 8
        /\ Cardinality({i \in 1 .. Len(out.data) : out.data[i] /= DataBefore[i]}) <= 8

\* byte k (0 the lowest) of the 32-bit value v
ByteOf(v, k) ==
    IF k = 0 THEN v[2] % 256
    ELSE IF k = 1 THEN v[2] \div 256
    ELSE IF k = 2 THEN v[1] % 256
    ELSE v[1] \div 256

\* C18: coSDOWrite(node, index, subindex, value, len) sends exactly one frame:
\* identifier 0x600+node, length 8, byte 0 = 0x23 | ((4-len)<<2), bytes 1-2 the
\* index low then high byte, byte 3 the subindex, bytes 4..4+len-1 the len low
\* bytes of value least significant first, every byte beyond them 0.
C18_WriteRequestLayout ==
    /\ (call.op = "coSDOWrite" /\ ev.rx = <<>>) =>
           /\ Len(ev.tx) = 1
           /\ ev.tx[1].cobId = 1536 + call.nodeId
           /\ ev.tx[1].len = 8
           /\ Len(ev.tx[1].data) = 8
           /\ ev.tx[1].data[1] = 35 + 4 * (4 - call.len)
           /\ ev.tx[1].data[2] = call.index % 256
           /\ ev.tx[1].data[3] = call.index \div 256
           /\ ev.tx[1].data[4] = call.subIndex
           /\ \A k \in 0 .. 3 :
                  ev.tx[1].data[5 + k] = IF k < call.len THEN ByteOf(call.data, k) ELSE 0
    /\ (call.op = "coSDOWrite" /\ ev.rx /= <<>>) => ev.tx = <<>>

\* 0xDDCCBBAA written as 2 bytes to 0x1018 sub 1 of node 7
C18_Witness ==
    /\ call.op = "coSDOWrite" /\ call.len = 2 /\ call.data = <<56780, 48042>>
    /\ ev.tx = <<Frame(1543, 8, <<43, 24, 16, 1, 170, 187, 0, 0>>)>>

\* C19: coTIME(ms) sends one frame with identifier 0x100, length 6 and payload
\* [t & 0xFF, (t>>8) & 0xFF, (t>>16) & 0xFF, 0, 0, 0], t being the clock value
\* if ms is 0xFFFFFFFF and ms otherwise; the clock is read once in the first
\* case and not at all in the second.
C19_TimeFrame ==
    call.op = "coTIME" =>
        LET sentinel == call.ms = <<65535, 65535>>
            t == IF sentinel THEN now ELSE call.ms
        IN  /\ Len(ev.tx) = 1
            /\ ev.tx[1].cobId = 256
            /\ ev.tx[1].len = 6
            /\ SubSeq(ev.tx[1].data, 1, 6) = <<ByteOf(t, 0), ByteOf(t, 1), ByteOf(t, 2), 0, 0, 0>>
            /\ ev.ms = IF sentinel THEN 1 ELSE 0

\* the clock reads 0x01123456 and the frame carries 56 34 12
C19_Witness ==
    /\ call.op = "coTIME" /\ call.ms = <<65535, 65535>> /\ now = <<274, 13398>>
    /\ ev.ms = 1
    /\ ev.tx = <<Frame(256, 6, <<86, 52, 18, 0, 0, 0, 0, 0>>)>>

\* C20: every frame handed to tx has a length of at most 8 and an identifier of
\* at most 0x7FF.
C20_TxFrameWellFormed ==
    \A i \in 1 .. Len(ev.tx) : ev.tx[i].len \in 0 .. 8 /\ ev.tx[i].cobId \in 0 .. 2047

\* the largest frame: 8 bytes of process data for node 127
C20_Witness ==
    /\ call.op = "coTPDO" /\ call.nodeId = 127 /\ call.len = 8
    /\ ev.tx = <<Frame(639, 8, <<1, 35, 69, 103, 137, 171, 205, 239>>)>>

\* C21: a poll of a blocking call in which rx reports "no data" (1) gives no
\* success or abort verdict: the call polls again or returns Timeout.
C21_NoDataNoVerdict ==
    (call.op \in Blocking /\ ev.rx = <<1>>) =>
        (pc = "poll" \/ (retAt = "timeout" /\ ret = IntToU32(-1)))

\* the frame m is what the blocking call c waits for
Awaited(m, c) ==
    IF c.op = "coNMTWaitBoot" THEN IsBootFrame(m, c.nodeId)
    ELSE IF c.op = "coSDOWrite" THEN IsResponseFor(m, c)
    ELSE ReadAccepts(m, c)

\* C22: a poll that receives the awaited frame ends the call with that frame's
\* verdict without reading the clock, however much time has passed; a poll that
\* returns Timeout after receiving a frame received one that is not awaited.
C22_MatchBeforeTimeout ==
    /\ (call.op \in Blocking /\ ev.rx = <<0>> /\ Awaited(msg, call)) =>
           (pc = "idle" /\ retAt \in {"match", "abort"} /\ ev.ms = 0)
    /\ (call.op \in Blocking /\ ev.rx = <<0>> /\ retAt = "timeout") => ~Awaited(msg, call)

\* the boot-up frame arrives after the clock was last read 1 ms short of the bound
C22_Witness ==
    /\ pc = "idle" /\ call.op = "coNMTWaitBoot" /\ ev.rx = <<0>> /\ IsBootFrame(msg, call.nodeId)
    /\ retAt = "match" /\ ret = U32Zero /\ Elapsed = U32(2999)

C25_SyncNotEmergency ==
    call.op = "coRPDO" =>
        /\ (ev.rx = <<0>> /\ msg.cobId = 128) => ev.emcy = <<>>
        /\ \A i \in 1 .. Len(ev.emcy) : ev.emcy[i].nodeId \in 1 .. 127

\* C27: coSDORead writes the caller's value only in the poll that returns
\* success, on an accepted response with high nibble 0x4 or 0x6; while it polls
\* and after an abort, a timeout, a send error or a receive error the value is
\* the one from before the call; the other outputs are never written.
C27_ReadWritesOnlyOnSuccess ==
    call.op = "coSDORead" =>
        /\ out.value /= ValueBefore =>
               /\ pc = "idle" /\ ret = U32Zero /\ ev.rx = <<0>>
               /\ ReadAccepts(msg, call) /\ msg.data[1] \div 16 \in {4, 6}
        /\ (pc = "poll" \/ retAt \in {"abort", "timeout", "tx_error", "rx_error"}) =>
               out.value = ValueBefore
        /\ out.data = DataBefore /\ out.len = OutBefore.len

\* an accepted abort response (0x8F for len 1) leaves the value alone
C27_Witness ==
    /\ pc = "idle" /\ call.op = "coSDORead" /\ retAt = "abort" /\ ev.rx = <<0>>
    /\ msg.data[1] = 143 /\ out.value = ValueBefore

\* C26: with the counter feature enabled, in every state after a
\* coSYNCResetCounter the counter is (1 + the number of coSYNC calls since the
\* last reset) mod 256, whatever tx reported for the SYNC frames and whatever
\* other operations ran in between.
C26_CounterCountsSyncs ==
    (syncEnable /\ env.syncs /= <<>>) => syncCounter = (1 + env.syncs[1]) % 256

\* 255 SYNC calls after the reset, the last one failing to send, then a read
C26_Witness ==
    /\ syncEnable /\ env.syncs = <<255>> /\ syncCounter = 0
    /\ pc = "idle" /\ call.op = "coSDORead" /\ retAt = "match"

\* the frames of the sequence of takes t, in order
RECURSIVE FramesOf(_)
FramesOf(t) == IF t = <<>> THEN <<>> ELSE <<Head(t).frame>> \o FramesOf(Tail(t))

\* the response coSDOWrite(7, 0x1018, 1, ...) waits for
WriteResponse(f) ==
    f.cobId = 1415 /\ f.len = 8 /\ f.data[2] = 24 /\ f.data[3] = 16 /\ f.data[4] = 1

\* C23: every frame the receive source delivers is taken by exactly one call, in
\* order; a response taken by coRPDO (from the interrupt or later) is reported
\* as "no usable frame" and the exchange, when it ends, ends in Timeout; a frame
\* taken by the blocking call is never delivered by coRPDO; a verdict always
\* comes from the response the poll itself took, and a response the poll takes
\* always gives its verdict.
C23_OneReceiveSource ==
    /\ FramesOf(env.taken) \o env.queue = env.sent
    /\ \A i \in DOMAIN env.taken :
           /\ (env.taken[i].by /= "poll" /\ WriteResponse(env.taken[i].frame)) =>
                  /\ env.taken[i].res = "unhandled"
                  /\ (pc = "idle" /\ call.op = "coSDOWrite") =>
                         (retAt = "timeout" /\ ret = U32Max)
           /\ (env.taken[i].by = "poll" /\ WriteResponse(env.taken[i].frame)) =>
                  env.taken[i].res \in {"match", "abort"}
           /\ (env.taken[i].by = "poll" /\ ~WriteResponse(env.taken[i].frame)) =>
                  env.taken[i].res \in {"none", "timeout"}
           /\ \A j \in DOMAIN env.taken :
                  (env.taken[i].by = "poll" /\ env.taken[j].by /= "poll") =>
                      env.taken[i].frame /= env.taken[j].frame
    /\ (pc = "idle" /\ call.op = "coSDOWrite" /\ retAt \in {"match", "abort"}) =>
           /\ env.taken /= <<>>
           /\ env.taken[Len(env.taken)] = [by |-> "poll", frame |-> msg, res |-> retAt]
           /\ WriteResponse(msg)

\* the interrupt took the response, which was pending from the start, and the
\* exchange timed out
C23_Witness ==
    /\ pc = "idle" /\ call.op = "coSDOWrite" /\ retAt = "timeout" /\ ret = U32Max
    /\ \E i \in DOMAIN env.taken :
           /\ env.taken[i].by = "irq" /\ WriteResponse(env.taken[i].frame)
           /\ env.taken[i].res = "unhandled"
    /\ WriteResponse(env.sent[1])

=============================================================================
